---- MODULE Spec2Model ----
(***************************************************************************)
(* A model of python-cryptapi: the blocking helper (cryptapi/CryptAPI.py), *)
(* the asyncio helper (cryptapi/AsyncCryptAPI.py) and the shared utilities *)
(* (cryptapi/utils.py).                                                    *)
(*                                                                         *)
(* A Python str is a sequence of one-character strings, so that replace,   *)
(* quote, upper and concatenation are computed character by character.     *)
(* A Python dict is a sequence of [k, v] entries in insertion order.       *)
(* A decoded JSON value is a record [t, s, items]: t is "str", "obj" or    *)
(* "list"; s holds the characters of a string, items the entries of an     *)
(* object.                                                                 *)
(***************************************************************************)
EXTENDS Integers, Sequences, FiniteSets, TLC

\* ------------------------------------------------------------------ bounds
\* Longest base URL drawn for prepare_url.
MaxUrlLen == 3
\* Most entries of a parameter map drawn for prepare_url.
MaxParams == 2
\* Longest coin string drawn for the coin normalisation.
MaxCoinLen == 3
\* Most top-level entries of an info response drawn for process_supported_coins.
MaxEntries == 2
\* Most sessions constructed.
MaxSessions == 2
\* Most public calls (constructor calls included) in one behaviour.
MaxCalls == 4
\* Most async calls in flight at once.
MaxPending == 2

\* ------------------------------------------------------------- Python str
RECURSIVE Flatten(_)
\* "".join(parts) for a sequence of strings
Flatten(parts) ==
    IF parts = <<>> THEN <<>> ELSE Head(parts) \o Flatten(Tail(parts))

\* c in s
Contains(s, c) == \E i \in 1..Len(s) : s[i] = c

\* sub in s, for strings
IsSubstring(sub, s) ==
    \E i \in 0..(Len(s) - Len(sub)) :
        \A j \in 1..Len(sub) : s[i + j] = sub[j]

\* s.replace(old, new) for one-character old and new
Replace(s, old, new) == [i \in 1..Len(s) |-> IF s[i] = old THEN new ELSE s[i]]

LowerLetters ==
    <<"a","b","c","d","e","f","g","h","i","j","k","l","m",
      "n","o","p","q","r","s","t","u","v","w","x","y","z">>
UpperLetters ==
    <<"A","B","C","D","E","F","G","H","I","J","K","L","M",
      "N","O","P","Q","R","S","T","U","V","W","X","Y","Z">>
Digits == {"0","1","2","3","4","5","6","7","8","9"}

\* s.upper()
Upper(s) ==
    [i \in 1..Len(s) |->
        IF \E n \in 1..Len(LowerLetters) : LowerLetters[n] = s[i]
        THEN UpperLetters[CHOOSE n \in 1..Len(LowerLetters) : LowerLetters[n] = s[i]]
        ELSE s[i]]

\* All strings over alphabet of length lo..hi
StringsOver(alphabet, lo, hi) ==
    UNION {[1..n -> alphabet] : n \in lo..hi}

\* ----------------------------------------------------- urllib.parse.quote
\* Characters quote() never escapes (RFC 3986 unreserved).
AlwaysSafe ==
    {LowerLetters[n] : n \in 1..Len(LowerLetters)}
        \cup {UpperLetters[n] : n \in 1..Len(UpperLetters)}
        \cup Digits \cup {"_", ".", "-", "~"}

\* The safe argument prepare_url passes to quote.
QuoteSafe == {":", "/", "?", "=", "&"}

\* The %XX escape of a character outside the safe sets (its byte in hex).
PercentEscape(c) ==
    CASE c = " " -> <<"%", "2", "0">>
      [] c = "#" -> <<"%", "2", "3">>
      [] c = "%" -> <<"%", "2", "5">>
      [] c = "+" -> <<"%", "2", "B">>
      [] c = "@" -> <<"%", "4", "0">>

\* urllib.parse.quote(s, safe=":/?=&")
quote(s) ==
    Flatten([i \in 1..Len(s) |->
        IF s[i] \in AlwaysSafe \cup QuoteSafe THEN <<s[i]>> ELSE PercentEscape(s[i])])

\* ------------------------------------------------------------ Python dict
\* None and a dict as the optional params argument.
None == [none |-> TRUE, items |-> <<>>]
Dict(items) == [none |-> FALSE, items |-> items]
\* Python truth of an optional dict: None and {} are false.
Truthy(d) == ~d.none /\ Len(d.items) > 0

HasKey(items, key) == \E i \in 1..Len(items) : items[i].k = key
ValueOf(items, key) == items[CHOOSE i \in 1..Len(items) : items[i].k = key].v
\* d[key] = value: an existing key keeps its position.
SetItem(items, key, value) ==
    IF HasKey(items, key)
    THEN [i \in 1..Len(items) |->
            IF items[i].k = key THEN [k |-> key, v |-> value] ELSE items[i]]
    ELSE Append(items, [k |-> key, v |-> value])

RECURSIVE Update(_, _)
\* d.update(other)
Update(items, other) ==
    IF other = <<>> THEN items
    ELSE Update(SetItem(items, Head(other).k, Head(other).v), Tail(other))

\* -------------------------------------------------------- utils.prepare_url
RECURSIVE JoinAmp(_)
\* "&".join(parts)
JoinAmp(parts) ==
    IF parts = <<>> THEN <<>>
    ELSE IF Len(parts) = 1 THEN Head(parts)
    ELSE Head(parts) \o <<"&">> \o JoinAmp(Tail(parts))

\* f"{k}={v}" for each item
KeyValuePairs(items) == [i \in 1..Len(items) |-> items[i].k \o <<"=">> \o items[i].v]

\* A variant that always appends with "?".
prepare_url_question_mark(url, params) ==
    quote(IF Truthy(params)
          THEN url \o <<"?">> \o JoinAmp(KeyValuePairs(params.items))
          ELSE url)

\* A variant that returns the composed string without quoting it.
prepare_url_unquoted(url, params) ==
    IF Truthy(params)
    THEN url \o <<(IF Contains(url, "?") THEN "&" ELSE "?")>>
             \o JoinAmp(KeyValuePairs(params.items))
    ELSE url

prepare_url(url, params) ==
    LET separator == IF Contains(url, "?") THEN "&" ELSE "?"
        query_params == JoinAmp(KeyValuePairs(params.items))
        result_url == IF Truthy(params)
                      THEN url \o <<separator>> \o query_params
                      ELSE url
    IN  quote(result_url)

\* ------------------------------------------------------------ JSON values
Str(s) == [t |-> "str", s |-> s, items |-> <<>>]
Obj(items) == [t |-> "obj", s |-> <<>>, items |-> items]
\* A JSON array (fee_tiers); its elements are not read by the program.
List == [t |-> "list", s |-> <<>>, items |-> <<>>]
PyNone == [t |-> "null", s |-> <<>>, items |-> <<>>]

\* The outcome of a call: a returned value or a raised exception.
Return(value) == [kind |-> "return", value |-> value]
Raise(kind, value) == [kind |-> kind, value |-> value]

\* ------------------------------------------- utils.process_supported_coins
s_coin == <<"c", "o", "i", "n">>
s_fee_tiers == <<"f", "e", "e", "_", "t", "i", "e", "r", "s">>

\* info.pop("fee_tiers", None)
PopFeeTiers(items) == SelectSeq(items, LAMBDA e : e.k # s_fee_tiers)

RECURSIVE token_loop(_, _, _)
\* for token, token_info in coin_info.items(): coins[ticker + "_" + token] = ...
token_loop(coins, ticker, tokens) ==
    IF tokens = <<>> THEN Return(Obj(coins))
    ELSE LET token == Head(tokens).k
             token_info == Head(tokens).v
         IN  IF token_info.t # "obj" THEN Raise("TypeError", PyNone)
             ELSE IF ~HasKey(token_info.items, s_coin) THEN Raise("KeyError", Str(s_coin))
             ELSE IF ValueOf(token_info.items, s_coin).t # "str" THEN Raise("TypeError", PyNone)
             ELSE token_loop(
                    SetItem(coins, ticker \o <<"_">> \o token,
                            Str(ValueOf(token_info.items, s_coin).s
                                \o <<" ", "(">> \o Upper(ticker) \o <<")">>)),
                    ticker, Tail(tokens))

RECURSIVE ticker_loop(_, _)
\* for ticker, coin_info in info.items(): ...
ticker_loop(coins, info) ==
    IF info = <<>> THEN Return(Obj(coins))
    ELSE LET ticker == Head(info).k
             coin_info == Head(info).v
         IN  IF coin_info.t # "obj" THEN Raise("AttributeError", PyNone)
             ELSE IF HasKey(coin_info.items, s_coin)
             THEN ticker_loop(SetItem(coins, ticker, ValueOf(coin_info.items, s_coin)),
                              Tail(info))
             ELSE LET inner == token_loop(coins, ticker, coin_info.items)
                  IN  IF inner.kind # "return" THEN inner
                      ELSE ticker_loop(inner.value.items, Tail(info))

\* A variant that joins chain and token with "/" and adds no chain suffix.
process_supported_coins_slash(info_response) ==
    LET RECURSIVE tl(_, _, _)
        tl(coins, ticker, tokens) ==
            IF tokens = <<>> THEN coins
            ELSE tl(SetItem(coins, ticker \o <<"/">> \o Head(tokens).k,
                            ValueOf(Head(tokens).v.items, s_coin)),
                    ticker, Tail(tokens))
        RECURSIVE kl(_, _)
        kl(coins, info) ==
            IF info = <<>> THEN coins
            ELSE IF Head(info).v.t # "obj" THEN coins
            ELSE IF HasKey(Head(info).v.items, s_coin)
            THEN kl(SetItem(coins, Head(info).k, ValueOf(Head(info).v.items, s_coin)),
                    Tail(info))
            ELSE kl(tl(coins, Head(info).k,
                       SelectSeq(Head(info).v.items,
                                 LAMBDA e : e.v.t = "obj" /\ HasKey(e.v.items, s_coin))),
                    Tail(info))
    IN  Return(Obj(kl(<<>>, PopFeeTiers(info_response.items))))

process_supported_coins(info_response) ==
    ticker_loop(<<>>, PopFeeTiers(info_response.items))

\* ------------------------------------------------- the request URL path
CRYPTAPI_URL ==
    <<"h","t","t","p","s",":","/","/","a","p","i",".",
      "c","r","y","p","t","a","p","i",".","i","o","/">>
CRYPTAPI_HOST ==
    <<"a","p","i",".","c","r","y","p","t","a","p","i",".","i","o">>

e_create == <<"c","r","e","a","t","e">>
e_logs == <<"l","o","g","s">>
e_qrcode == <<"q","r","c","o","d","e">>
e_convert == <<"c","o","n","v","e","r","t">>
e_info == <<"i","n","f","o">>
e_estimate == <<"e","s","t","i","m","a","t","e">>
Endpoints == {e_create, e_logs, e_qrcode, e_convert, e_info, e_estimate}

Helpers == {"CryptAPIHelper", "AsyncCryptAPIHelper"}

\* coin = coin.replace("/", "_") in both constructors
normalize_coin(coin) == Replace(coin, "/", "_")

\* CryptAPIHelper.process_request: the URL it requests
sync_request_url(coin, endpoint) ==
    LET seg == IF coin # <<>>
               THEN (IF ~Contains(coin, "/") THEN Replace(coin, "_", "/") ELSE coin)
                        \o <<"/">>
               ELSE <<>>
    IN  CRYPTAPI_URL \o seg \o endpoint \o <<"/">>

\* AsyncCryptAPIHelper.process_request: the URL it requests
async_request_url(coin, endpoint) ==
    LET seg == IF coin # <<>> THEN coin \o <<"/">> ELSE <<>>
    IN  CRYPTAPI_URL \o Replace(seg, "_", "/") \o endpoint \o <<"/">>

request_url(helper, coin, endpoint) ==
    IF helper = "CryptAPIHelper"
    THEN sync_request_url(coin, endpoint)
    ELSE async_request_url(coin, endpoint)

VARIABLES
    url, params, result_url,            \* prepare_url: arguments and result
    info_response, coins,               \* process_supported_coins: argument and result
    coin_arg, path_helper, path_endpoint, self_coin, path_url,
                                        \* the coin from constructor to request URL
    sessions,                           \* the helper objects constructed so far
    pending,                            \* async calls awaiting their HTTP response
    last_call,                          \* the public call that completed last
    last_request,                       \* the HTTP GET issued last
    ncalls,                             \* public calls begun
    nrequests,                          \* HTTP GETs issued
    last_issued,                        \* per session: address_in of its last
                                        \* successful get_address (history)
    modes                               \* the same call made on a blocking and
                                        \* on an async helper: request and outcome

url_vars == <<url, params, result_url>>
coins_vars == <<info_response, coins>>
path_vars == <<coin_arg, path_helper, path_endpoint, self_coin, path_url>>
session_vars ==
    <<sessions, pending, last_call, last_request, ncalls, nrequests, last_issued,
      modes>>
vars == <<url_vars, coins_vars, path_vars, session_vars>>

NotCalled == [called |-> FALSE, value |-> <<>>]
Returned(value) == [called |-> TRUE, value |-> value]

\* ------------------------------------------ specification of prepare_url
\* Inputs drawn for prepare_url.
UrlChars == {"a", "/", "?", " ", "%", "#"}
UrlInputs == StringsOver(UrlChars, 0, MaxUrlLen)
ParamKeys == {<<"k">>, <<"i", "d">>}
ParamVals == {<<"1">>, <<"a", " ", "b">>, <<"x", "&", "y">>}
ParamItems == [k : ParamKeys, v : ParamVals]
ParamDicts ==
    {Dict(items) : items \in
        {q \in UNION {[1..n -> ParamItems] : n \in 0..MaxParams} :
            \A i, j \in 1..Len(q) : i # j => q[i].k # q[j].k}}
ParamInputs == {None} \cup ParamDicts

\* ------------------------------------------------------- session state
SessionIds == 1..MaxSessions

\* A slot no constructor has filled.
NoSession ==
    [live |-> FALSE, helper |-> "CryptAPIHelper", coin |-> <<>>, own_address |-> <<>>,
     callback_url |-> <<>>, parameters |-> <<>>, ca_params |-> <<>>,
     payment_Address |-> <<>>]

NoReply == [transport |-> "none", body |-> PyNone]
NoRequest ==
    [helper |-> "none", sid |-> 0, op |-> "none", url |-> <<>>, params |-> <<>>,
     host |-> <<>>]
NoCall ==
    [n |-> 0, op |-> "none", helper |-> "none", sid |-> 0, args |-> <<>>,
     endpoint |-> <<>>, reply |-> NoReply, pr |-> NotCalled, outcome |-> NotCalled]
NotIssued == [set |-> FALSE, addr |-> <<>>]
NoMode == [request |-> NoRequest, outcome |-> NotCalled]
NoModes == [op |-> "none", args |-> <<>>, reply |-> NoReply, sync |-> NoMode, async |-> NoMode]

SessionsIdle ==
    /\ sessions = [sid \in SessionIds |-> NoSession]
    /\ pending = <<>>
    /\ last_call = NoCall
    /\ last_request = NoRequest
    /\ ncalls = 0
    /\ nrequests = 0
    /\ last_issued = [sid \in SessionIds |-> NotIssued]
    /\ modes = NoModes

UrlIdle == /\ url = <<>> /\ params = None /\ result_url = NotCalled
CoinsIdle == /\ info_response = Obj(<<>>) /\ coins = NotCalled
PathIdle ==
    /\ coin_arg = <<>> /\ path_helper = "CryptAPIHelper" /\ path_endpoint = e_info
    /\ self_coin = NotCalled /\ path_url = NotCalled

UrlInit ==
    /\ url \in UrlInputs
    /\ params \in ParamInputs
    /\ result_url = NotCalled
    /\ CoinsIdle /\ PathIdle /\ SessionsIdle

call_prepare_url ==
    /\ ~result_url.called
    /\ result_url' = Returned(prepare_url(url, params))
    /\ UNCHANGED <<url, params, coins_vars, path_vars, session_vars>>

SpecUrl == UrlInit /\ [][call_prepare_url]_vars

\* ------------------------------- specification of the coin normalisation
CoinChars == {"a", "_", "/"}
CoinInputs == StringsOver(CoinChars, 1, MaxCoinLen)

PathInit ==
    /\ coin_arg \in CoinInputs
    /\ path_helper \in Helpers
    /\ path_endpoint \in Endpoints
    /\ self_coin = NotCalled
    /\ path_url = NotCalled
    /\ UrlIdle /\ CoinsIdle /\ SessionsIdle

\* the constructor stores the normalised coin
construct_coin ==
    /\ ~self_coin.called
    /\ self_coin' = Returned(normalize_coin(coin_arg))
    /\ UNCHANGED <<coin_arg, path_helper, path_endpoint, path_url,
                   url_vars, coins_vars, session_vars>>

\* a session operation passes self.coin to process_request
build_request_url ==
    /\ self_coin.called
    /\ ~path_url.called
    /\ path_url' = Returned(request_url(path_helper, self_coin.value, path_endpoint))
    /\ UNCHANGED <<coin_arg, path_helper, path_endpoint, self_coin,
                   url_vars, coins_vars, session_vars>>

SpecPath == PathInit /\ [][construct_coin \/ build_request_url]_vars

\* --------------------------- specification of process_supported_coins
s_btc == <<"b", "t", "c">>
s_Bitcoin == <<"B", "i", "t", "c", "o", "i", "n">>
s_bep20 == <<"b", "e", "p", "2", "0">>
s_usdt == <<"u", "s", "d", "t">>
s_Tether == <<"T", "e", "t", "h", "e", "r">>
s_tokens == <<"t", "o", "k", "e", "n", "s">>
s_ltc == <<"l", "t", "c">>
s_trc20 == <<"t", "r", "c", "2", "0">>
s_sol == <<"s", "o", "l">>
s_Other == <<"O", "t", "h", "e", "r">>

Entry(k, v) == [k |-> k, v |-> v]
CoinObj(name) == Obj(<<Entry(s_coin, Str(name))>>)

\* Top-level entries an info response is drawn from.
entry_btc == Entry(s_btc, CoinObj(s_Bitcoin))
entry_bep20 == Entry(s_bep20, Obj(<<Entry(s_usdt, CoinObj(s_Tether))>>))
entry_tokens ==
    Entry(s_tokens, Obj(<<Entry(s_bep20, Obj(<<Entry(s_usdt, CoinObj(s_Tether))>>))>>))
entry_not_object == Entry(s_ltc, Str(<<"x">>))
entry_token_without_coin == Entry(s_trc20, Obj(<<Entry(s_usdt, Obj(<<>>))>>))
entry_fee_tiers == Entry(s_fee_tiers, List)
entry_bep20_usdt == Entry(s_bep20 \o <<"_">> \o s_usdt, CoinObj(s_Other))
entry_empty_object == Entry(s_sol, Obj(<<>>))

InfoEntries ==
    {entry_btc, entry_bep20, entry_tokens, entry_not_object,
     entry_token_without_coin, entry_fee_tiers, entry_bep20_usdt, entry_empty_object}

InfoInputs ==
    {Obj(items) : items \in
        {q \in UNION {[1..n -> InfoEntries] : n \in 0..MaxEntries} :
            \A i, j \in 1..Len(q) : i # j => q[i].k # q[j].k}}

CoinsInit ==
    /\ info_response \in InfoInputs
    /\ coins = NotCalled
    /\ UrlIdle /\ PathIdle /\ SessionsIdle

call_process_supported_coins ==
    /\ ~coins.called
    /\ coins' = Returned(process_supported_coins(info_response))
    /\ UNCHANGED <<info_response, url_vars, path_vars, session_vars>>

SpecCoins == CoinsInit /\ [][call_process_supported_coins]_vars

\* ===================================================== the two helpers
s_status == <<"s", "t", "a", "t", "u", "s">>
s_error == <<"e", "r", "r", "o", "r">>
s_success == <<"s", "u", "c", "c", "e", "s", "s">>
s_address_in == <<"a", "d", "d", "r", "e", "s", "s", "_", "i", "n">>
s_address == <<"a", "d", "d", "r", "e", "s", "s">>
s_callback == <<"c", "a", "l", "l", "b", "a", "c", "k">>
s_size == <<"s", "i", "z", "e">>
s_value == <<"v", "a", "l", "u", "e">>
s_from == <<"f", "r", "o", "m">>
s_addresses == <<"a", "d", "d", "r", "e", "s", "s", "e", "s">>
s_priority == <<"p", "r", "i", "o", "r", "i", "t", "y">>
s_default == <<"d", "e", "f", "a", "u", "l", "t">>
s_Invalid_address == <<"I", "n", "v", "a", "l", "i", "d", " ", "a", "d", "d", "r", "e", "s", "s">>
s_Callback_URL_is_Missing == <<"C", "a", "l", "l", "b", "a", "c", "k", " ", "U", "R", "L", " ", "i", "s", " ", "M", "i", "s", "s", "i", "n", "g">>
s_Coin_is_Missing == <<"C", "o", "i", "n", " ", "i", "s", " ", "M", "i", "s", "s", "i", "n", "g">>
s_Address_is_Missing == <<"A", "d", "d", "r", "e", "s", "s", " ", "i", "s", " ", "M", "i", "s", "s", "i", "n", "g">>

\* ------------------------------------------------------- the constructors
\* A variant that does not check the own address.
init_outcome_without_address_check(coin, own_address, callback_url) ==
    IF callback_url = <<>> THEN Raise("Exception", Str(s_Callback_URL_is_Missing))
    ELSE IF coin = <<>> THEN Raise("Exception", Str(s_Coin_is_Missing))
    ELSE Return(PyNone)

\* CryptAPIHelper.__init__ / AsyncCryptAPIHelper.__init__: the exception raised,
\* or the attributes of the new object.
init_outcome(coin, own_address, callback_url) ==
    IF callback_url = <<>> THEN Raise("Exception", Str(s_Callback_URL_is_Missing))
    ELSE IF coin = <<>> THEN Raise("Exception", Str(s_Coin_is_Missing))
    ELSE IF own_address = <<>> THEN Raise("Exception", Str(s_Address_is_Missing))
    ELSE Return(PyNone)

init_session(helper, coin, own_address, callback_url, parameters, ca_params) ==
    [live |-> TRUE,
     helper |-> helper,
     coin |-> normalize_coin(coin),
     own_address |-> own_address,
     callback_url |-> callback_url,
     parameters |-> IF Truthy(parameters) THEN parameters.items ELSE <<>>,
     ca_params |-> IF Truthy(ca_params) THEN ca_params.items ELSE <<>>,
     payment_Address |-> <<>>]

\* --------------------------------------------------- the gateway's replies
ReplyOf(body) == [transport |-> "ok", body |-> body]
\* requests/aiohttp raise: the connection failed, or the body is not JSON.
ConnectionFailed == [transport |-> "ConnectionError", body |-> PyNone]
NotJson == [transport |-> "JSONDecodeError", body |-> PyNone]

body_success == Obj(<<Entry(s_status, Str(s_success))>>)
body_address(a) ==
    Obj(<<Entry(s_status, Str(s_success)), Entry(s_address_in, Str(a))>>)
body_error == Obj(<<Entry(s_status, Str(s_error)), Entry(s_error, Str(s_Invalid_address))>>)
body_error_without_message == Obj(<<Entry(s_status, Str(s_error))>>)
body_empty == Obj(<<>>)
body_info == Obj(<<entry_btc, entry_bep20, entry_fee_tiers>>)
body_info_malformed == Obj(<<entry_btc, entry_not_object>>)

AddressesIn == {<<"A", "1">>, <<"A", "2">>}

CommonReplies == {ReplyOf(body_success), ReplyOf(body_error), ConnectionFailed}
CreateReplies ==
    CommonReplies \cup {ReplyOf(body_error_without_message), ReplyOf(body_empty), NotJson}
        \cup {ReplyOf(body_address(a)) : a \in AddressesIn}
InfoReplies ==
    {ReplyOf(body_info), ReplyOf(body_info_malformed), ReplyOf(body_error),
     ConnectionFailed}
RepliesTo(endpoint) ==
    IF endpoint = e_create THEN CreateReplies
    ELSE IF endpoint = e_info THEN InfoReplies
    ELSE CommonReplies

\* ------------------------------------------------------- process_request
\* The part of process_request after the GET: response.json(), the status
\* check, the return.
process_response_ignoring_status(reply) ==
    IF reply.transport # "ok" THEN Raise(reply.transport, PyNone)
    ELSE Return(reply.body)

process_response(reply) ==
    IF reply.transport # "ok" THEN Raise(reply.transport, PyNone)
    ELSE IF /\ HasKey(reply.body.items, s_status)
            /\ ValueOf(reply.body.items, s_status) = Str(s_error)
         THEN IF HasKey(reply.body.items, s_error)
              THEN Raise("CryptAPIException", ValueOf(reply.body.items, s_error))
              ELSE Raise("KeyError", Str(s_error))
         ELSE Return(reply.body)

\* CryptAPIHelper.process_request after requests.get
sync_process_response(reply) == process_response(reply)
\* AsyncCryptAPIHelper.process_request after session.get
async_process_response(reply) == process_response(reply)

\* The GET process_request issues.
http_get(helper, sid, op, coin, endpoint, query) ==
    [helper |-> helper, sid |-> sid, op |-> op,
     url |-> request_url(helper, coin, endpoint),
     params |-> query,
     host |-> CRYPTAPI_HOST]

\* ------------------------------------------------------ the callback URL
\* quote_plus as urlencode applies it to a key or a value.
quote_plus(s) ==
    Flatten([i \in 1..Len(s) |->
        IF s[i] \in AlwaysSafe THEN <<s[i]>>
        ELSE IF s[i] = " " THEN <<"+">>
        ELSE IF s[i] = "&" THEN <<"%", "2", "6">>
        ELSE IF s[i] = "=" THEN <<"%", "3", "D">>
        ELSE IF s[i] = "/" THEN <<"%", "2", "F">>
        ELSE IF s[i] = ":" THEN <<"%", "3", "A">>
        ELSE IF s[i] = "?" THEN <<"%", "3", "F">>
        ELSE PercentEscape(s[i])])

\* requests.models.PreparedRequest.prepare_url(url, params).url for an http
\* URL with a host and a non-empty path, made of unreserved characters and
\* ":/?=&": the URL, then "?" or "&", then urlencode(params).
requests_prepare_url(callback_url, parameters) ==
    callback_url
        \o <<(IF Contains(callback_url, "?") THEN "&" ELSE "?")>>
        \o JoinAmp([i \in 1..Len(parameters) |->
                quote_plus(parameters[i].k) \o <<"=">> \o quote_plus(parameters[i].v)])

\* CryptAPIHelper.get_address / get_logs: the callback URL sent
sync_callback_url(s) ==
    IF s.parameters # <<>>
    THEN requests_prepare_url(s.callback_url, s.parameters)
    ELSE s.callback_url

\* AsyncCryptAPIHelper.get_address / get_logs: the callback URL sent
async_callback_url(s) == prepare_url(s.callback_url, Dict(s.parameters))

callback_url_of(s) ==
    IF s.helper = "CryptAPIHelper" THEN sync_callback_url(s) ELSE async_callback_url(s)

\* ------------------------------------------- the query of each operation
\* A variant in which the session's own address and callback URL win over
\* the extra gateway parameters.
get_address_params_own_last(s) ==
    Update(s.ca_params,
           <<Entry(s_address, s.own_address), Entry(s_callback, callback_url_of(s))>>)

get_address_params(s) ==
    LET own == <<Entry(s_address, s.own_address), Entry(s_callback, callback_url_of(s))>>
    IN  IF s.ca_params # <<>> THEN Update(own, s.ca_params) ELSE own

get_logs_params(s) == <<Entry(s_callback, callback_url_of(s))>>

\* A variant that sends the session's own address.
get_qrcode_params_own_address(s, value, size) ==
    <<Entry(s_address, s.own_address), Entry(s_size, size)>>

\* A variant that sends the value parameter whatever the value.
get_qrcode_params_always_value(s, value, size) ==
    <<Entry(s_address, s.payment_Address), Entry(s_size, size), Entry(s_value, value)>>

get_qrcode_params(s, value, size) ==
    LET base == <<Entry(s_address, s.payment_Address), Entry(s_size, size)>>
    IN  IF value # <<>> THEN SetItem(base, s_value, value) ELSE base

get_conversion_params(from_coin, value) ==
    <<Entry(s_from, from_coin), Entry(s_value, value)>>

get_estimate_params(addresses, priority) ==
    <<Entry(s_addresses, addresses), Entry(s_priority, priority)>>

\* ------------------------------------------- after process_request returns
\* A variant that also stores the issued address as the own address.
get_address_cache_overwriting_own_address(s, pr) ==
    IF pr.kind = "return" /\ HasKey(pr.value.items, s_address_in)
    THEN [s EXCEPT !.payment_Address = ValueOf(pr.value.items, s_address_in).s,
                   !.own_address = ValueOf(pr.value.items, s_address_in).s]
    ELSE s

\* CryptAPIHelper.get_address: lines 111-114
sync_get_address_cache(s, pr) ==
    IF pr.kind = "return" /\ HasKey(pr.value.items, s_address_in)
    THEN [s EXCEPT !.payment_Address = ValueOf(pr.value.items, s_address_in).s]
    ELSE s
sync_get_address_outcome(pr) == pr

\* A variant that forgets the cached address when the call fails.
get_address_cache_cleared_on_failure(s, pr) ==
    IF /\ pr.kind = "return" /\ pr.value.items # <<>>
       /\ HasKey(pr.value.items, s_address_in)
    THEN [s EXCEPT !.payment_Address = ValueOf(pr.value.items, s_address_in).s]
    ELSE [s EXCEPT !.payment_Address = <<>>]

\* A variant that keeps the address cached first.
get_address_cache_first_writer(s, pr) ==
    IF /\ pr.kind = "return" /\ pr.value.items # <<>>
       /\ HasKey(pr.value.items, s_address_in)
       /\ s.payment_Address = <<>>
    THEN [s EXCEPT !.payment_Address = ValueOf(pr.value.items, s_address_in).s]
    ELSE s

\* AsyncCryptAPIHelper.get_address: lines 117-122
async_get_address_cache(s, pr) ==
    IF /\ pr.kind = "return" /\ pr.value.items # <<>>
       /\ HasKey(pr.value.items, s_address_in)
    THEN [s EXCEPT !.payment_Address = ValueOf(pr.value.items, s_address_in).s]
    ELSE s
async_get_address_outcome(pr) ==
    IF pr.kind # "return" THEN pr
    ELSE IF pr.value.items = <<>> THEN Return(PyNone)
    ELSE IF ~HasKey(pr.value.items, s_address_in) THEN Raise("KeyError", Str(s_address_in))
    ELSE pr

\* get_supported_coins: process_supported_coins(_info) once get_info returned
get_supported_coins_outcome(pr) ==
    IF pr.kind = "return" THEN process_supported_coins(pr.value) ELSE pr

\* The address_in of a get_address that returned one; none after one that
\* returned without it; unchanged by one that raised.
issued_after(before, outcome) ==
    IF outcome.kind # "return" THEN before
    ELSE IF outcome.value.t = "obj" /\ HasKey(outcome.value.items, s_address_in)
    THEN [set |-> TRUE, addr |-> ValueOf(outcome.value.items, s_address_in).s]
    ELSE NotIssued

\* ------------------------------------------------------------ the inputs
s_O1 == <<"O", "1">>
s_callback_base == <<"h", "t", "t", "p", ":", "/", "/", "c", "/", "c", "b">>
s_order_id == <<"o", "r", "d", "e", "r", "_", "i", "d">>
s_convert == <<"c", "o", "n", "v", "e", "r", "t">>
s_usd == <<"u", "s", "d">>
s_300 == <<"3", "0", "0">>

CoinArgs == {<<>>, s_bep20 \o <<"/">> \o s_usdt}
OwnAddressArgs == {<<>>, s_O1}
CallbackUrlArgs == {<<>>, s_callback_base}
\* <<parameters, ca_params>>
OptionalsGiven ==
    {<<Dict(<<Entry(s_order_id, <<"7">>)>>), Dict(<<Entry(s_convert, <<"1">>)>>)>>}
OptionalArgs == {<<None, None>>} \cup OptionalsGiven
QrValues == {<<>>, <<"5">>}
QrSizes == {s_300}
FromCoins == {s_usd}
ConversionValues == {<<"5">>}
InfoCoins == {<<>>, s_btc}
EstimateCoins == {s_btc}

\* ------------------------------------------------------------ the actions
\* The record of a completed call; n is the number of calls begun by then.
Call(n, op, helper, sid, args, endpoint, reply, pr, outcome) ==
    [n |-> n, op |-> op, helper |-> helper, sid |-> sid, args |-> args,
     endpoint |-> endpoint, reply |-> reply, pr |-> Returned(pr),
     outcome |-> Returned(outcome)]

Remove(q, i) == SubSeq(q, 1, i - 1) \o SubSeq(q, i + 1, Len(q))

PureIdle == UNCHANGED <<url_vars, coins_vars, path_vars>>

\* helper(coin, own_address, callback_url, parameters, ca_params)
construct(helper, Coins, OwnAddresses, CallbackUrls, Optionals) ==
    /\ ncalls < MaxCalls
    /\ \E coin \in Coins, own_address \in OwnAddresses,
          callback_url \in CallbackUrls, optional \in Optionals :
        LET parameters == optional[1]
            ca_params == optional[2]
            outcome == init_outcome(coin, own_address, callback_url)
            args == [coin |-> coin, own_address |-> own_address,
                     callback_url |-> callback_url]
        IN  /\ last_call' = [n |-> ncalls + 1, op |-> "init", helper |-> helper,
                             sid |-> 0, args |-> args, endpoint |-> <<>>,
                             reply |-> NoReply, pr |-> NotCalled,
                             outcome |-> Returned(outcome)]
            /\ IF outcome.kind = "return"
               THEN /\ \E sid \in SessionIds : ~sessions[sid].live
                    /\ LET sid == CHOOSE n \in SessionIds :
                                    /\ ~sessions[n].live
                                    /\ \A m \in SessionIds : ~sessions[m].live => n <= m
                       IN  sessions' = [sessions EXCEPT ![sid] =
                                init_session(helper, coin, own_address, callback_url,
                                             parameters, ca_params)]
               ELSE UNCHANGED sessions
    /\ ncalls' = ncalls + 1
    /\ UNCHANGED <<pending, last_request, nrequests, last_issued, modes>>
    /\ PureIdle

\* The constructors called with any of the drawn arguments.
CryptAPIHelper_init ==
    construct("CryptAPIHelper", CoinArgs, OwnAddressArgs, CallbackUrlArgs, OptionalArgs)
AsyncCryptAPIHelper_init ==
    construct("AsyncCryptAPIHelper", CoinArgs, OwnAddressArgs, CallbackUrlArgs,
              OptionalArgs)

\* The constructors called with every argument given.
CryptAPIHelper_new ==
    construct("CryptAPIHelper", CoinArgs \ {<<>>}, OwnAddressArgs \ {<<>>},
              CallbackUrlArgs \ {<<>>}, OptionalsGiven)
AsyncCryptAPIHelper_new ==
    construct("AsyncCryptAPIHelper", CoinArgs \ {<<>>}, OwnAddressArgs \ {<<>>},
              CallbackUrlArgs \ {<<>>}, OptionalsGiven)

IsSync(sid) == sessions[sid].live /\ sessions[sid].helper = "CryptAPIHelper"
IsAsync(sid) == sessions[sid].live /\ sessions[sid].helper = "AsyncCryptAPIHelper"

\* A blocking call: the GET is issued and answered within the call.
sync_call(sid, op, args, coin, endpoint, query, reply, outcome) ==
    /\ ncalls < MaxCalls
    /\ ncalls' = ncalls + 1
    /\ nrequests' = nrequests + 1
    /\ last_request' = http_get("CryptAPIHelper", sid, op, coin, endpoint, query)
    /\ last_call' = Call(ncalls + 1, op, "CryptAPIHelper", sid, args, endpoint, reply,
                         sync_process_response(reply), outcome)
    /\ UNCHANGED <<pending, modes>>
    /\ PureIdle

sync_get_address(sid) ==
    /\ IsSync(sid)
    /\ \E reply \in RepliesTo(e_create) :
        LET s == sessions[sid]
            pr == sync_process_response(reply)
            outcome == sync_get_address_outcome(pr)
        IN  /\ sync_call(sid, "get_address", <<>>, s.coin, e_create,
                         get_address_params(s), reply, outcome)
            /\ sessions' = [sessions EXCEPT ![sid] = sync_get_address_cache(s, pr)]
            /\ last_issued' = [last_issued EXCEPT ![sid] = issued_after(@, outcome)]

sync_get_logs(sid) ==
    /\ IsSync(sid)
    /\ \E reply \in RepliesTo(e_logs) :
        sync_call(sid, "get_logs", <<>>, sessions[sid].coin, e_logs,
                  get_logs_params(sessions[sid]), reply, sync_process_response(reply))
    /\ UNCHANGED <<sessions, last_issued>>

sync_get_qrcode(sid) ==
    /\ IsSync(sid)
    /\ \E reply \in RepliesTo(e_qrcode), value \in QrValues, size \in QrSizes :
        sync_call(sid, "get_qrcode", <<value, size>>, sessions[sid].coin, e_qrcode,
                  get_qrcode_params(sessions[sid], value, size), reply,
                  sync_process_response(reply))
    /\ UNCHANGED <<sessions, last_issued>>

sync_get_conversion(sid) ==
    /\ IsSync(sid)
    /\ \E reply \in RepliesTo(e_convert), from_coin \in FromCoins,
          value \in ConversionValues :
        sync_call(sid, "get_conversion", <<from_coin, value>>, sessions[sid].coin,
                  e_convert, get_conversion_params(from_coin, value), reply,
                  sync_process_response(reply))
    /\ UNCHANGED <<sessions, last_issued>>

sync_get_info ==
    /\ \E reply \in RepliesTo(e_info), coin \in InfoCoins :
        sync_call(0, "get_info", <<coin>>, coin, e_info, <<>>, reply,
                  sync_process_response(reply))
    /\ UNCHANGED <<sessions, last_issued>>

sync_get_supported_coins ==
    /\ \E reply \in RepliesTo(e_info) :
        sync_call(0, "get_supported_coins", <<>>, <<>>, e_info, <<>>, reply,
                  get_supported_coins_outcome(sync_process_response(reply)))
    /\ UNCHANGED <<sessions, last_issued>>

sync_get_estimate ==
    /\ \E reply \in RepliesTo(e_estimate), coin \in EstimateCoins :
        sync_call(0, "get_estimate", <<coin, <<"1">>, s_default>>, coin, e_estimate,
                  get_estimate_params(<<"1">>, s_default), reply,
                  sync_process_response(reply))
    /\ UNCHANGED <<sessions, last_issued>>

\* An async call up to its first suspension: the GET is issued.
async_call(sid, op, args, coin, endpoint, query) ==
    /\ ncalls < MaxCalls
    /\ Len(pending) < MaxPending
    /\ ncalls' = ncalls + 1
    /\ nrequests' = nrequests + 1
    /\ last_request' = http_get("AsyncCryptAPIHelper", sid, op, coin, endpoint, query)
    /\ pending' = Append(pending, [sid |-> sid, op |-> op, args |-> args,
                                   endpoint |-> endpoint])
    /\ UNCHANGED <<sessions, last_call, last_issued, modes>>
    /\ PureIdle

async_get_address(sid) ==
    /\ IsAsync(sid)
    /\ async_call(sid, "get_address", <<>>, sessions[sid].coin, e_create,
                  get_address_params(sessions[sid]))

async_get_logs(sid) ==
    /\ IsAsync(sid)
    /\ async_call(sid, "get_logs", <<>>, sessions[sid].coin, e_logs,
                  get_logs_params(sessions[sid]))

async_get_qrcode(sid) ==
    /\ IsAsync(sid)
    /\ \E value \in QrValues, size \in QrSizes :
        async_call(sid, "get_qrcode", <<value, size>>, sessions[sid].coin, e_qrcode,
                   get_qrcode_params(sessions[sid], value, size))

async_get_conversion(sid) ==
    /\ IsAsync(sid)
    /\ \E from_coin \in FromCoins, value \in ConversionValues :
        async_call(sid, "get_conversion", <<from_coin, value>>, sessions[sid].coin,
                   e_convert, get_conversion_params(from_coin, value))

async_get_info ==
    \E coin \in InfoCoins :
        async_call(0, "get_info", <<coin>>, coin, e_info, <<>>)

async_get_supported_coins ==
    async_call(0, "get_supported_coins", <<>>, <<>>, e_info, <<>>)

async_get_estimate ==
    \E coin \in EstimateCoins :
        async_call(0, "get_estimate", <<coin, <<"1">>, s_default>>, coin, e_estimate,
                   get_estimate_params(<<"1">>, s_default))

\* A variant that repeats the GET once when the first attempt failed.
async_resume_retrying(i, reply, outcome) ==
    /\ pending' = Remove(pending, i)
    /\ last_call' = Call(ncalls, pending[i].op, "AsyncCryptAPIHelper", pending[i].sid,
                         pending[i].args, pending[i].endpoint, reply,
                         async_process_response(reply), outcome)
    /\ nrequests' = IF async_process_response(reply).kind = "return"
                    THEN nrequests ELSE nrequests + 1
    /\ UNCHANGED <<last_request, ncalls, modes>>
    /\ PureIdle

\* The response of pending call i arrives and the call runs to its end.
async_resume(i, reply, outcome) ==
    /\ pending' = Remove(pending, i)
    /\ last_call' = Call(ncalls, pending[i].op, "AsyncCryptAPIHelper", pending[i].sid,
                         pending[i].args, pending[i].endpoint, reply,
                         async_process_response(reply), outcome)
    /\ UNCHANGED <<last_request, ncalls, nrequests, modes>>
    /\ PureIdle

async_get_address_resume(i) ==
    /\ i \in 1..Len(pending)
    /\ pending[i].op = "get_address"
    /\ \E reply \in RepliesTo(pending[i].endpoint) :
        LET sid == pending[i].sid
            pr == async_process_response(reply)
            outcome == async_get_address_outcome(pr)
        IN  /\ async_resume(i, reply, outcome)
            /\ sessions' = [sessions EXCEPT ![sid] = async_get_address_cache(@, pr)]
            /\ last_issued' = [last_issued EXCEPT ![sid] = issued_after(@, outcome)]

async_get_supported_coins_resume(i) ==
    /\ i \in 1..Len(pending)
    /\ pending[i].op = "get_supported_coins"
    /\ \E reply \in RepliesTo(pending[i].endpoint) :
        async_resume(i, reply, get_supported_coins_outcome(async_process_response(reply)))
    /\ UNCHANGED <<sessions, last_issued>>

async_process_request_resume(i) ==
    /\ i \in 1..Len(pending)
    /\ pending[i].op \notin {"get_address", "get_supported_coins"}
    /\ \E reply \in RepliesTo(pending[i].endpoint) :
        async_resume(i, reply, async_process_response(reply))
    /\ UNCHANGED <<sessions, last_issued>>

Init == SessionsIdle /\ UrlIdle /\ CoinsIdle /\ PathIdle

Next ==
    \/ CryptAPIHelper_new
    \/ AsyncCryptAPIHelper_new
    \/ \E sid \in SessionIds : sync_get_address(sid)
    \/ \E sid \in SessionIds : sync_get_logs(sid)
    \/ \E sid \in SessionIds : sync_get_qrcode(sid)
    \/ \E sid \in SessionIds : sync_get_conversion(sid)
    \/ sync_get_info
    \/ sync_get_supported_coins
    \/ sync_get_estimate
    \/ \E sid \in SessionIds : async_get_address(sid)
    \/ \E sid \in SessionIds : async_get_logs(sid)
    \/ \E sid \in SessionIds : async_get_qrcode(sid)
    \/ \E sid \in SessionIds : async_get_conversion(sid)
    \/ async_get_info
    \/ async_get_supported_coins
    \/ async_get_estimate
    \/ \E i \in 1..MaxPending : async_get_address_resume(i)
    \/ \E i \in 1..MaxPending : async_get_supported_coins_resume(i)
    \/ \E i \in 1..MaxPending : async_process_request_resume(i)

\* Sessions constructed from present arguments, and every public operation.
Spec == Init /\ [][Next]_vars

\* Construction with any arguments, absent ones included, between calls of
\* the operations that need no response handling of their own.
NextInit ==
    \/ CryptAPIHelper_init
    \/ AsyncCryptAPIHelper_init
    \/ \E sid \in SessionIds : sync_get_logs(sid)
    \/ \E sid \in SessionIds : async_get_logs(sid)
    \/ \E i \in 1..MaxPending : async_process_request_resume(i)

SpecInit == Init /\ [][NextInit]_vars

\* ================================= the two helpers given the same calls
\* A blocking helper (session 1) and an async helper (session 2) constructed
\* from the same arguments receive the same calls, each awaited before the
\* next, and the gateway answers both alike.
s_callback_encoded == s_callback_base \o <<"?", "x", "=", "%", "4", "1">>
s_callback_other == <<"h", "t", "t", "p", ":", "/", "/", "e", "/">>
s_X9 == <<"X", "9">>
s_mixed_coin == <<"a", "_", "b", "/", "c">>

\* <<callback_url, parameters, ca_params>>
ModeConfigs ==
    {<<s_callback_base, None, None>>,
     <<s_callback_base, Dict(<<Entry(s_order_id, <<"7">>)>>),
       Dict(<<Entry(s_convert, <<"1">>)>>)>>,
     <<s_callback_base, Dict(<<Entry(<<"k">>, <<"a", " ", "b">>)>>),
       Dict(<<Entry(s_address, s_X9)>>)>>,
     <<s_callback_base, None,
       Dict(<<Entry(s_callback, s_callback_other), Entry(s_convert, <<"1">>)>>)>>,
     <<s_callback_encoded, None, None>>}
ModeInfoCoins == InfoCoins \cup {s_mixed_coin}

SyncSid == 1
AsyncSid == 2

\* helper(coin, own_address, callback_url, parameters, ca_params), on both
both_init ==
    /\ ncalls < MaxCalls
    /\ ~sessions[SyncSid].live
    /\ \E coin \in CoinArgs \ {<<>>}, own_address \in OwnAddressArgs \ {<<>>},
          config \in ModeConfigs :
        LET outcome == init_outcome(coin, own_address, config[1])
        IN  /\ sessions' = [sessions EXCEPT
                    ![SyncSid] = init_session("CryptAPIHelper", coin, own_address,
                                              config[1], config[2], config[3]),
                    ![AsyncSid] = init_session("AsyncCryptAPIHelper", coin, own_address,
                                               config[1], config[2], config[3])]
            /\ modes' = [op |-> "init", args |-> <<>>, reply |-> NoReply,
                         sync |-> [request |-> NoRequest, outcome |-> Returned(outcome)],
                         async |-> [request |-> NoRequest, outcome |-> Returned(outcome)]]
    /\ ncalls' = ncalls + 1
    /\ UNCHANGED <<pending, last_call, last_request, nrequests, last_issued>>
    /\ PureIdle

\* One call made on both helpers and answered with the same reply; b_ names
\* what the blocking helper passes and yields, a_ what the async helper does.
both_call(op, args, reply, b_coin, a_coin, endpoint, b_query, a_query, b_outcome, a_outcome) ==
    /\ ncalls < MaxCalls
    /\ ncalls' = ncalls + 1
    /\ nrequests' = nrequests + 2
    /\ modes' =
        [op |-> op, args |-> args, reply |-> reply,
         sync |-> [request |-> http_get("CryptAPIHelper", SyncSid, op, b_coin,
                                        endpoint, b_query),
                   outcome |-> Returned(b_outcome)],
         async |-> [request |-> http_get("AsyncCryptAPIHelper", AsyncSid, op, a_coin,
                                         endpoint, a_query),
                    outcome |-> Returned(a_outcome)]]
    /\ UNCHANGED <<pending, last_call, last_request, last_issued>>
    /\ PureIdle

BothLive == IsSync(SyncSid) /\ IsAsync(AsyncSid)

both_get_address ==
    /\ BothLive
    /\ \E reply \in RepliesTo(e_create) :
        LET b == sessions[SyncSid]
            a == sessions[AsyncSid]
            sync_pr == sync_process_response(reply)
            async_pr == async_process_response(reply)
        IN  /\ both_call("get_address", <<>>, reply, b.coin, a.coin, e_create,
                         get_address_params(b), get_address_params(a),
                         sync_get_address_outcome(sync_pr),
                         async_get_address_outcome(async_pr))
            /\ sessions' = [sessions EXCEPT
                    ![SyncSid] = sync_get_address_cache(b, sync_pr),
                    ![AsyncSid] = async_get_address_cache(a, async_pr)]

both_get_logs ==
    /\ BothLive
    /\ \E reply \in RepliesTo(e_logs) :
        both_call("get_logs", <<>>, reply, sessions[SyncSid].coin,
                  sessions[AsyncSid].coin, e_logs,
                  get_logs_params(sessions[SyncSid]), get_logs_params(sessions[AsyncSid]),
                  sync_process_response(reply), async_process_response(reply))
    /\ UNCHANGED sessions

both_get_qrcode ==
    /\ BothLive
    /\ \E reply \in RepliesTo(e_qrcode), value \in QrValues, size \in QrSizes :
        both_call("get_qrcode", <<value, size>>, reply, sessions[SyncSid].coin,
                  sessions[AsyncSid].coin, e_qrcode,
                  get_qrcode_params(sessions[SyncSid], value, size),
                  get_qrcode_params(sessions[AsyncSid], value, size),
                  sync_process_response(reply), async_process_response(reply))
    /\ UNCHANGED sessions

both_get_conversion ==
    /\ BothLive
    /\ \E reply \in RepliesTo(e_convert), from_coin \in FromCoins,
          value \in ConversionValues :
        both_call("get_conversion", <<from_coin, value>>, reply, sessions[SyncSid].coin,
                  sessions[AsyncSid].coin, e_convert,
                  get_conversion_params(from_coin, value),
                  get_conversion_params(from_coin, value),
                  sync_process_response(reply), async_process_response(reply))
    /\ UNCHANGED sessions

both_get_info ==
    /\ \E reply \in RepliesTo(e_info), coin \in ModeInfoCoins :
        both_call("get_info", <<coin>>, reply, coin, coin, e_info, <<>>, <<>>,
                  sync_process_response(reply), async_process_response(reply))
    /\ UNCHANGED sessions

both_get_supported_coins ==
    /\ \E reply \in RepliesTo(e_info) :
        both_call("get_supported_coins", <<>>, reply, <<>>, <<>>, e_info, <<>>, <<>>,
                  get_supported_coins_outcome(sync_process_response(reply)),
                  get_supported_coins_outcome(async_process_response(reply)))
    /\ UNCHANGED sessions

both_get_estimate ==
    /\ \E reply \in RepliesTo(e_estimate), coin \in EstimateCoins :
        both_call("get_estimate", <<coin, <<"1">>, s_default>>, reply, coin, coin,
                  e_estimate, get_estimate_params(<<"1">>, s_default),
                  get_estimate_params(<<"1">>, s_default),
                  sync_process_response(reply), async_process_response(reply))
    /\ UNCHANGED sessions

NextModes ==
    \/ both_init
    \/ both_get_address
    \/ both_get_logs
    \/ both_get_qrcode
    \/ both_get_conversion
    \/ both_get_info
    \/ both_get_supported_coins
    \/ both_get_estimate

SpecModes == Init /\ [][NextModes]_vars

\* ============================== overlapping async calls on one session
\* The async get_address and get_qrcode of Spec, each pending call carrying
\* its history: n, the ordinal of the call; before, the address cached when it
\* began; overtaken, the address_in a get_address on the same session cached
\* while this call was pending.
race_call(sid, op, args, endpoint, query) ==
    /\ ncalls < MaxCalls
    /\ Len(pending) < MaxPending
    /\ ncalls' = ncalls + 1
    /\ nrequests' = nrequests + 1
    /\ last_request' = http_get("AsyncCryptAPIHelper", sid, op, sessions[sid].coin,
                                endpoint, query)
    /\ pending' = Append(pending,
            [sid |-> sid, op |-> op, args |-> args, endpoint |-> endpoint,
             n |-> ncalls + 1, before |-> sessions[sid].payment_Address,
             overtaken |-> NotIssued])
    /\ UNCHANGED <<sessions, last_call, last_issued, modes>>
    /\ PureIdle

race_get_address(sid) ==
    /\ IsAsync(sid)
    /\ race_call(sid, "get_address", <<>>, e_create, get_address_params(sessions[sid]))

race_get_qrcode(sid) ==
    /\ IsAsync(sid)
    /\ \E value \in QrValues, size \in QrSizes :
        race_call(sid, "get_qrcode", <<value, size>>, e_qrcode,
                  get_qrcode_params(sessions[sid], value, size))

\* The calls left pending once call i has ended with this outcome: those on
\* its session are overtaken when it was a get_address that returned an
\* address_in.
StillPending(i, outcome) ==
    LET rest == Remove(pending, i)
        wrote == /\ pending[i].op = "get_address"
                 /\ outcome.kind = "return"
                 /\ outcome.value.t = "obj"
                 /\ HasKey(outcome.value.items, s_address_in)
    IN  [j \in 1..Len(rest) |->
            IF rest[j].sid = pending[i].sid /\ wrote
            THEN [rest[j] EXCEPT !.overtaken =
                    [set |-> TRUE, addr |-> ValueOf(outcome.value.items, s_address_in).s]]
            ELSE rest[j]]

race_resume(i, reply, s, outcome) ==
    /\ pending' = StillPending(i, outcome)
    /\ sessions' = [sessions EXCEPT ![pending[i].sid] = s]
    /\ last_call' = Call(pending[i].n, pending[i].op, "AsyncCryptAPIHelper",
                         pending[i].sid,
                         [before |-> pending[i].before, overtaken |-> pending[i].overtaken],
                         pending[i].endpoint, reply, async_process_response(reply),
                         outcome)
    /\ UNCHANGED <<last_request, ncalls, nrequests, modes>>
    /\ PureIdle

race_get_address_resume(i) ==
    /\ i \in 1..Len(pending)
    /\ pending[i].op = "get_address"
    /\ \E reply \in RepliesTo(e_create) :
        LET pr == async_process_response(reply)
            outcome == async_get_address_outcome(pr)
        IN  /\ race_resume(i, reply,
                           async_get_address_cache(sessions[pending[i].sid], pr), outcome)
            /\ last_issued' = [last_issued EXCEPT ![pending[i].sid] =
                                    issued_after(@, outcome)]

race_get_qrcode_resume(i) ==
    /\ i \in 1..Len(pending)
    /\ pending[i].op = "get_qrcode"
    /\ \E reply \in RepliesTo(e_qrcode) :
        race_resume(i, reply, sessions[pending[i].sid], async_process_response(reply))
    /\ UNCHANGED last_issued

NextRace ==
    \/ AsyncCryptAPIHelper_new
    \/ \E sid \in SessionIds : race_get_address(sid)
    \/ \E sid \in SessionIds : race_get_qrcode(sid)
    \/ \E i \in 1..MaxPending : race_get_address_resume(i)
    \/ \E i \in 1..MaxPending : race_get_qrcode_resume(i)

SpecRace == Init /\ [][NextRace]_vars

\* ========================================================= session claims
GatewayReportedError(body) ==
    /\ body.t = "obj"
    /\ \E i \in 1..Len(body.items) :
          body.items[i].k = s_status /\ body.items[i].v = Str(s_error)

\* C1: for every endpoint and both helpers, when the decoded response has
\* status "error" process_request raises CryptAPIException carrying the
\* response's error field, otherwise it returns the decoded object unchanged;
\* no public operation returns a result when the gateway reported an error.
C1_GatewayErrorRaised ==
    (last_call.op \notin {"none", "init"} /\ last_call.reply.transport = "ok") =>
        LET body == last_call.reply.body
        IN  /\ (GatewayReportedError(body) /\ HasKey(body.items, s_error)) =>
                  /\ last_call.pr.value =
                        Raise("CryptAPIException", ValueOf(body.items, s_error))
                  /\ last_call.outcome.value = last_call.pr.value
            /\ ~GatewayReportedError(body) => last_call.pr.value = Return(body)
            /\ GatewayReportedError(body) => last_call.outcome.value.kind # "return"

\* C1 witness: the async helper's get_estimate raised the gateway's message.
C1_Witness ==
    /\ last_call.op = "get_estimate"
    /\ last_call.helper = "AsyncCryptAPIHelper"
    /\ last_call.endpoint = e_estimate
    /\ last_call.reply = ReplyOf(body_error)
    /\ last_call.outcome.value = Raise("CryptAPIException", Str(s_Invalid_address))

\* C2: after a get_address on a session succeeded with address_in = A, every
\* get_qrcode begun later on that session, while no further get_address on it
\* succeeded, sends a request whose address parameter is A.
C2_QrcodeSendsIssuedAddress ==
    [][(/\ nrequests' = nrequests + 1
        /\ last_request'.op = "get_qrcode"
        /\ last_issued[last_request'.sid].set)
       => /\ HasKey(last_request'.params, s_address)
          /\ ValueOf(last_request'.params, s_address)
                = last_issued[last_request'.sid].addr]_vars

\* C2 witness: an async get_qrcode sent the issued address after a get_logs
\* on the same session had run in between.
C2_Witness ==
    /\ last_request.op = "get_qrcode"
    /\ last_request.sid \in SessionIds
    /\ last_call.op = "get_logs"
    /\ last_call.sid = last_request.sid
    /\ last_issued[last_request.sid].set
    /\ last_issued[last_request.sid].addr = <<"A", "2">>
    /\ ValueOf(last_request.params, s_address) = <<"A", "2">>

\* C3: a constructor call with an empty coin, own address or callback URL
\* raises; it produces no session and issues no HTTP request.
C3_EmptyArgumentFailsConstruction ==
    [][(/\ last_call'.op = "init"
        /\ last_call'.n > last_call.n
        /\ \/ last_call'.args.coin = <<>>
           \/ last_call'.args.own_address = <<>>
           \/ last_call'.args.callback_url = <<>>)
       => /\ last_call'.outcome.value.kind = "Exception"
          /\ sessions' = sessions
          /\ nrequests' = nrequests
          /\ last_request' = last_request
          /\ pending' = pending]_vars

\* C3 witness: the async constructor refused an empty own address after a
\* session had been constructed and had issued a request.
C3_Witness ==
    /\ last_call.op = "init"
    /\ last_call.helper = "AsyncCryptAPIHelper"
    /\ last_call.args.own_address = <<>>
    /\ last_call.args.coin # <<>>
    /\ last_call.args.callback_url # <<>>
    /\ last_call.outcome.value = Raise("Exception", Str(s_Address_is_Missing))
    /\ nrequests > 0
    /\ \A sid \in SessionIds : sessions[sid].live => sessions[sid].own_address # <<>>

\* A call of op on session sid completes in this step.
Completes(op, sid) ==
    /\ \/ last_call'.n > last_call.n
       \/ Len(pending') < Len(pending)
    /\ last_call'.op = op
    /\ last_call'.sid = sid

\* The call that completes in this step returned a response carrying address_in.
ReturnsAddressIn ==
    /\ last_call'.outcome.value.kind = "return"
    /\ last_call'.outcome.value.value.t = "obj"
    /\ HasKey(last_call'.outcome.value.value.items, s_address_in)

\* C12: a session's cached payment address starts empty; a get_address that
\* succeeds with address_in = A sets it to A; every other step (get_logs,
\* get_qrcode, get_conversion, get_info, get_estimate, get_supported_coins, a
\* get_address that fails, a call on another session) leaves it unchanged.
C12_CachedAddressWrittenOnlyBySuccess ==
    [][\A sid \in SessionIds :
         LET succeeded == Completes("get_address", sid) /\ ReturnsAddressIn
         IN  /\ (~sessions[sid].live /\ sessions'[sid].live)
                    => sessions'[sid].payment_Address = <<>>
             /\ (sessions[sid].live /\ succeeded)
                    => sessions'[sid].payment_Address =
                          ValueOf(last_call'.outcome.value.value.items, s_address_in).s
             /\ (sessions[sid].live /\ ~succeeded)
                    => sessions'[sid].payment_Address = sessions[sid].payment_Address]_vars

\* C12 witness: a get_address answered with a gateway error left the address
\* cached by an earlier success in place.
C12_Witness ==
    \E sid \in SessionIds :
        /\ last_call.op = "get_address"
        /\ last_call.sid = sid
        /\ last_call.reply = ReplyOf(body_error)
        /\ last_call.outcome.value.kind = "CryptAPIException"
        /\ sessions[sid].payment_Address = <<"A", "1">>

\* C13: every public operation issues exactly one HTTP GET per call, when it
\* begins; the step in which its response is handled issues none, and a
\* failed attempt (gateway error, transport or JSON-decoding failure) ends the
\* call with an exception, no second request being issued.
C13_OneRequestPerCall ==
    [][LET begins == /\ ncalls' = ncalls + 1
                     /\ ~(last_call'.op = "init" /\ last_call'.n = ncalls')
           completes == \/ last_call'.n > last_call.n /\ last_call'.op # "init"
                        \/ Len(pending') < Len(pending)
           failed == \/ last_call'.reply.transport # "ok"
                     \/ GatewayReportedError(last_call'.reply.body)
       IN  /\ nrequests' = nrequests + (IF begins THEN 1 ELSE 0)
           /\ ~begins => last_request' = last_request
           /\ (completes /\ failed) => last_call'.outcome.value.kind # "return"]_vars

\* C13 witness: an async get_supported_coins whose only GET failed in
\* transport raised, one request having been issued in all.
C13_Witness ==
    /\ last_call.op = "get_supported_coins"
    /\ last_call.helper = "AsyncCryptAPIHelper"
    /\ last_call.reply = ConnectionFailed
    /\ last_call.outcome.value.kind = "ConnectionError"
    /\ pending = <<>>
    /\ nrequests = 1

C15_SessionConfigurationFixed ==
    [][\A sid \in SessionIds :
         /\ (~sessions[sid].live /\ sessions'[sid].live)
                => /\ sessions'[sid].coin = normalize_coin(last_call'.args.coin)
                   /\ sessions'[sid].own_address = last_call'.args.own_address
                   /\ sessions'[sid].callback_url = last_call'.args.callback_url
         /\ sessions[sid].live
                => /\ sessions'[sid].live
                   /\ sessions'[sid].helper = sessions[sid].helper
                   /\ sessions'[sid].coin = sessions[sid].coin
                   /\ sessions'[sid].own_address = sessions[sid].own_address
                   /\ sessions'[sid].callback_url = sessions[sid].callback_url
                   /\ sessions'[sid].parameters = sessions[sid].parameters
                   /\ sessions'[sid].ca_params = sessions[sid].ca_params
                   /\ (sessions'[sid].payment_Address # sessions[sid].payment_Address
                          => last_call'.sid = sid)]_vars

\* C15 witness: two sessions, each having cached the address_in of its own
\* get_address, the second one's call having left the first one's address.
C15_Witness ==
    /\ sessions[1].live /\ sessions[2].live
    /\ sessions[1].payment_Address = <<"A", "1">>
    /\ sessions[2].payment_Address = <<"A", "2">>
    /\ last_call.op = "get_address"
    /\ last_call.sid = 2
    /\ sessions[1].own_address = s_O1
    /\ sessions[1].ca_params = <<Entry(s_convert, <<"1">>)>>

\* The last characters of url are the endpoint and "/".
EndsWithEndpoint(request, endpoint) ==
    /\ Len(request.url) > Len(endpoint)
    /\ SubSeq(request.url, Len(request.url) - Len(endpoint), Len(request.url))
            = endpoint \o <<"/">>

\* C16: every get_qrcode call issues a GET to the endpoint qrcode, whatever
\* the cached address; it sends address, the cached payment address (empty
\* when none was cached), and size, and it sends value exactly when the value
\* argument is not empty, these and no other parameters.
C16_QrcodeParameters ==
    [][(ncalls' = ncalls + 1
            /\ \/ last_call'.n = ncalls' /\ last_call'.op = "get_qrcode"
               \/ /\ Len(pending') > Len(pending)
                  /\ pending'[Len(pending')].op = "get_qrcode")
       => LET args == IF Len(pending') > Len(pending)
                      THEN pending'[Len(pending')].args ELSE last_call'.args
              sid == last_request'.sid
              sent == last_request'.params
          IN  /\ nrequests' = nrequests + 1
              /\ last_request'.op = "get_qrcode"
              /\ EndsWithEndpoint(last_request', e_qrcode)
              /\ HasKey(sent, s_address)
              /\ ValueOf(sent, s_address) = sessions[sid].payment_Address
              /\ HasKey(sent, s_size)
              /\ ValueOf(sent, s_size) = args[2]
              /\ HasKey(sent, s_value) <=> args[1] # <<>>
              /\ HasKey(sent, s_value) => ValueOf(sent, s_value) = args[1]
              /\ Len(sent) = IF args[1] # <<>> THEN 3 ELSE 2]_vars

\* C16 witness: a get_qrcode with the default value, on a session with no
\* cached address, was sent with an empty address and answered.
C16_Witness ==
    /\ last_call.op = "get_qrcode"
    /\ last_call.args = <<<<>>, s_300>>
    /\ last_call.outcome.value = Return(body_success)
    /\ last_request.op = "get_qrcode"
    /\ last_request.sid = last_call.sid
    /\ last_request.params = <<Entry(s_address, <<>>), Entry(s_size, s_300)>>
    /\ sessions[last_call.sid].payment_Address = <<>>

\* What get_address sends for session s when the extra gateway parameters
\* are merged last: each of them with its own value, and the session's own
\* address and callback URL under the keys they leave free.
MergedLast(s, request) ==
    /\ EndsWithEndpoint(request, e_create)
    /\ \A i \in 1..Len(s.ca_params) :
          /\ HasKey(request.params, s.ca_params[i].k)
          /\ ValueOf(request.params, s.ca_params[i].k) = s.ca_params[i].v
    /\ HasKey(request.params, s_address)
    /\ HasKey(request.params, s_callback)
    /\ ~HasKey(s.ca_params, s_address)
          => ValueOf(request.params, s_address) = s.own_address
    /\ ~HasKey(s.ca_params, s_callback)
          => ValueOf(request.params, s_callback) = callback_url_of(s)

\* C17: in get_address, of both helpers, the extra gateway parameters are
\* merged last into the request sent to the create endpoint: a ca_params key
\* address or callback replaces the session's own address or the built
\* callback URL in the request, and the session's stored own_address,
\* callback_url and ca_params stay as they were.
C17_ExtraParametersMergedLast ==
    [][(ncalls' = ncalls + 1 /\ modes'.op = "get_address")
       => /\ MergedLast(sessions[SyncSid], modes'.sync.request)
          /\ MergedLast(sessions[AsyncSid], modes'.async.request)
          /\ \A sid \in {SyncSid, AsyncSid} :
                /\ sessions'[sid].own_address = sessions[sid].own_address
                /\ sessions'[sid].callback_url = sessions[sid].callback_url
                /\ sessions'[sid].ca_params = sessions[sid].ca_params]_vars

\* C17 witness: a get_address on sessions whose ca_params hold the key
\* address was sent with that value in place of the own address, which the
\* sessions still hold.
C17_Witness ==
    /\ modes.op = "get_address"
    /\ sessions[SyncSid].ca_params = <<Entry(s_address, s_X9)>>
    /\ sessions[AsyncSid].ca_params = <<Entry(s_address, s_X9)>>
    /\ ValueOf(modes.sync.request.params, s_address) = s_X9
    /\ ValueOf(modes.async.request.params, s_address) = s_X9
    /\ sessions[SyncSid].own_address = s_O1
    /\ sessions[AsyncSid].own_address = s_O1

\* C11 (as stated): a blocking and an async helper constructed alike and given
\* the same calls and the same gateway responses issue the same requests (URL
\* and query parameters), return the same results or raise the same errors,
\* and hold the same cached payment address.
C11_ModesAgree ==
    /\ modes.sync.request.url = modes.async.request.url
    /\ modes.sync.request.params = modes.async.request.params
    /\ modes.sync.outcome = modes.async.outcome
    /\ sessions[SyncSid].payment_Address = sessions[AsyncSid].payment_Address

\* ====================================================== prepare_url claims
\* C4 (as stated): with an empty or absent parameter map, prepare_url returns
\* the base URL exactly, character for character, whatever characters it holds.
C4_EmptyParamsReturnsUrlUnchanged ==
    (result_url.called /\ ~Truthy(params)) => result_url.value = url

\* The separator the claim describes.
SeparatorFor(u) == IF \E i \in 1..Len(u) : u[i] = "?" THEN "&" ELSE "?"

\* C5 (as stated): for a non-empty parameter map the result is the
\* percent-encoding of the base URL, one separator, then the key=value pairs
\* joined by "&"; every key=value pair of the map occurs in the result.
C5_PairsAppearLiterally ==
    (result_url.called /\ Truthy(params)) =>
        /\ result_url.value =
              quote(url) \o <<SeparatorFor(url)>> \o JoinAmp(KeyValuePairs(params.items))
        /\ \A i \in 1..Len(params.items) :
              IsSubstring(params.items[i].k \o <<"=">> \o params.items[i].v,
                          result_url.value)

\* quote(k)=quote(v) for each item
EncodedPairs(items) ==
    [i \in 1..Len(items) |-> quote(items[i].k) \o <<"=">> \o quote(items[i].v)]

\* C5 (amended): for a non-empty parameter map the result is the
\* percent-encoding of the base URL, one separator ("&" if the base URL
\* contains "?", otherwise "?"), then the percent-encoded key=value pairs
\* joined by "&" in the map's order; the percent-encoded form of every
\* key=value pair occurs in the result.
C5_EncodedPairsAppended ==
    (result_url.called /\ Truthy(params)) =>
        /\ result_url.value =
              quote(url) \o <<SeparatorFor(url)>> \o JoinAmp(EncodedPairs(params.items))
        /\ \A i \in 1..Len(params.items) :
              IsSubstring(EncodedPairs(params.items)[i], result_url.value)

\* C5 witness: two pairs, one with a space in its value, appended with "&".
C5_Witness ==
    /\ result_url.called
    /\ Len(params.items) = 2
    /\ \E i \in 1..2 : Contains(params.items[i].v, " ")
    /\ Contains(url, "?")
    /\ IsSubstring(<<"a", "%", "2", "0", "b">>, result_url.value)

HexDigits == Digits \cup {"A", "B", "C", "D", "E", "F"}
OutputAlphabet ==
    {LowerLetters[n] : n \in 1..Len(LowerLetters)}
        \cup {UpperLetters[n] : n \in 1..Len(UpperLetters)}
        \cup Digits
        \cup {":", "/", "?", "=", "&", "%", "-", ".", "_", "~"}

\* C6: every character of the prepare_url result is in
\* [A-Za-z0-9:/?=&%-._~], and every "%" in it starts a %XX escape.
C6_OutputAlphabet ==
    result_url.called =>
        \A i \in 1..Len(result_url.value) :
            /\ result_url.value[i] \in OutputAlphabet
            /\ result_url.value[i] = "%" =>
                  /\ i + 2 <= Len(result_url.value)
                  /\ result_url.value[i + 1] \in HexDigits
                  /\ result_url.value[i + 2] \in HexDigits

\* C6 witness: a base URL with "#" and a value with a space were encoded.
C6_Witness ==
    /\ result_url.called
    /\ Contains(url, "#")
    /\ Truthy(params)
    /\ \E i \in 1..Len(params.items) : Contains(params.items[i].v, " ")
    /\ IsSubstring(<<"%", "2", "3">>, result_url.value)

\* ================================================ coin normalisation claim
\* C7 (as stated): for a coin C containing "/", replacing "/" by "_" and then
\* "_" by "/" reproduces C, and the request URL is <base><C>/<endpoint>/.
C7_CoinRoundTrips ==
    (path_url.called /\ Contains(coin_arg, "/")) =>
        /\ Replace(self_coin.value, "_", "/") = coin_arg
        /\ path_url.value = CRYPTAPI_URL \o coin_arg \o <<"/">> \o path_endpoint \o <<"/">>

\* ========================================== process_supported_coins claims
s_bep20_slash_usdt == <<"b", "e", "p", "2", "0", "/", "u", "s", "d", "t">>
s_bep20_usdt == <<"b", "e", "p", "2", "0", "_", "u", "s", "d", "t">>
s_Tether_BEP20 ==
    <<"T", "e", "t", "h", "e", "r", " ", "(", "B", "E", "P", "2", "0", ")">>

IsCoinObject(v) == v.t = "obj" /\ HasKey(v.items, s_coin)

WritesKey(e, key) ==
    /\ e.k # s_fee_tiers
    /\ e.v.t = "obj"
    /\ IF HasKey(e.v.items, s_coin)
       THEN e.k = key
       ELSE \E q \in 1..Len(e.v.items) : e.k \o <<"_">> \o e.v.items[q].k = key

C9_NeverFails ==
    coins.called => coins.value.kind = "return"

\* C10 (as stated): every top-level entry whose value is an object with a
\* coin field is recorded as ticker -> coin name, and every key of the result
\* comes from an input entry.
C10_CoinEntriesRecorded ==
    coins.called =>
        /\ \A p \in 1..Len(info_response.items) :
              LET e == info_response.items[p]
              IN  IsCoinObject(e.v) =>
                    /\ coins.value.kind = "return"
                    /\ HasKey(coins.value.value.items, e.k)
                    /\ ValueOf(coins.value.value.items, e.k) = ValueOf(e.v.items, s_coin)
        /\ coins.value.kind = "return" =>
              \A n \in 1..Len(coins.value.value.items) :
                  \E p \in 1..Len(info_response.items) :
                      WritesKey(info_response.items[p], coins.value.value.items[n].k)

====
